---- MODULE Spec2Model ----
(***************************************************************************)
(* Form-to-email relay: the Express handlers of index.js                   *)
(* (/submit-contact-form, /subscribe, /submit-quote-form) and of the       *)
(* second application file (/submit-form, /submit-form/multipart).         *)
(* A request goes through: body parsing, the multer upload middleware      *)
(* (disk storage, fileFilter, size limit), the handler's validation, the   *)
(* primary send, the fallback send, the fire-and-forget unlink of the      *)
(* temporary files and the response.                                       *)
(***************************************************************************)
EXTENDS Integers, Sequences, FiniteSets, TLC

\* ------------------------------------------------------------------ bounds
\* Largest number of file parts one request carries.
MaxFiles == 2
\* Number of distinct values of Date.now() + '-' + Math.round(Math.random()*1E9).
MaxSuffix == 2
\* Longest run of phone characters in a phone argument.
MaxPhoneLen == 16
\* Longest email argument.
MaxEmailLen == 5
\* Largest number of values of a multi-select field.
MaxItems == 3

\* ------------------------------------------------------- program constants
FileSizeLimit == 10 * 1024 * 1024
ArrayMaxCount == 5
SingleMaxCount == 1

\* --------------------------------------------------------------- JS values
\* A request field: undefined, a string (a sequence of characters), an
\* array of strings (a repeated multipart field, or a JSON array), or an
\* object that has no callable toString (the JSON value {"toString": 1}).
Undefined == [t |-> "undefined", s |-> <<>>, a |-> <<>>]
Str(x) == [t |-> "string", s |-> x, a |-> <<>>]
Arr(x) == [t |-> "array", s |-> <<>>, a |-> x]
Obj == [t |-> "object", s |-> <<>>, a |-> <<>>]

\* JS truthiness: undefined and '' are falsy, every other string (a blank
\* one included), every array and every object is truthy.
Truthy(v) == v.t \in {"array", "object"} \/ (v.t = "string" /\ v.s # <<>>)

RECURSIVE Join(_, _)
Join(a, sep) ==
    IF a = <<>> THEN <<>>
    ELSE IF Len(a) = 1 THEN a[1]
    ELSE a[1] \o sep \o Join(Tail(a), sep)

\* String(v) throws a TypeError ("Cannot convert object to primitive
\* value") on an object whose toString and valueOf give no primitive.
ConvertThrows(v) == v.t = "object"

\* String(v), as RegExp.prototype.test and template literals coerce, where
\* it returns.
ToStr(v) ==
    CASE v.t = "string" -> v.s
      [] v.t = "array" -> Join(v.a, <<",">>)
      [] v.t = "undefined" -> <<"u", "n", "d", "e", "f", "i", "n", "e", "d">>

IsSpace(c) == c \in {" ", "\t", "\n"}
IsDigit(c) == c \in {"0", "1", "2", "3", "4", "5", "6", "7", "8", "9"}

\* [^\s@]+ over s[lo..hi]
Local(s, lo, hi) ==
    /\ lo <= hi
    /\ \A k \in lo..hi : ~IsSpace(s[k]) /\ s[k] # "@"

\* Variant: the '.' of the pattern is not escaped and matches any character
\* but a line break.
validateEmail_UnescapedDot(email) ==
    LET s == ToStr(email)
        n == Len(s)
    IN \E i \in 1..n : \E j \in 1..n :
          /\ s[i] = "@"
          /\ s[j] # "\n"
          /\ Local(s, 1, i - 1)
          /\ Local(s, i + 1, j - 1)
          /\ Local(s, j + 1, n)

\* /^[^\s@]+@[^\s@]+\.[^\s@]+$/.test(email)
validateEmail(email) ==
    LET s == ToStr(email)
        n == Len(s)
    IN \E i \in 1..n : \E j \in 1..n :
          /\ s[i] = "@"
          /\ s[j] = "."
          /\ Local(s, 1, i - 1)
          /\ Local(s, i + 1, j - 1)
          /\ Local(s, j + 1, n)

\* Variant: the pattern without the optional leading '+'.
validatePhone_NoPlus(phone) ==
    IF ~Truthy(phone) THEN TRUE
    ELSE LET s == ToStr(phone)
             Class(x) == \A k \in 1..Len(x) : IsDigit(x[k]) \/ IsSpace(x[k]) \/ x[k] = "-"
         IN Len(s) >= 8 /\ Len(s) <= 15 /\ Class(s)

\* if (!phone) return true; /^\+?[0-9\s-]{8,15}$/.test(phone)
validatePhone(phone) ==
    IF ~Truthy(phone) THEN TRUE
    ELSE LET s == ToStr(phone)
             d == IF s # <<>> /\ s[1] = "+" THEN Tail(s) ELSE s
             Class(x) == \A k \in 1..Len(x) : IsDigit(x[k]) \/ IsSpace(x[k]) \/ x[k] = "-"
         IN Len(d) >= 8 /\ Len(d) <= 15 /\ Class(d)

ToLowerChar(c) ==
    CASE c = "P" -> "p" [] c = "D" -> "d" [] c = "F" -> "f"
      [] c = "E" -> "e" [] c = "X" -> "x" [] c = "J" -> "j"
      [] c = "G" -> "g" [] c = "N" -> "n" [] c = "O" -> "o"
      [] c = "C" -> "c" [] OTHER -> c

toLowerCase(s) == [k \in 1..Len(s) |-> ToLowerChar(s[k])]

\* path.extname: from the last '.' to the end; '' when there is no '.' or
\* the only '.' is the first character.
extname(s) ==
    LET dots == {k \in 1..Len(s) : s[k] = "."}
        last == IF dots = {} THEN 0 ELSE CHOOSE k \in dots : \A m \in dots : m <= k
    IN IF last <= 1 THEN <<>> ELSE SubSeq(s, last, Len(s))

allowedTypes ==
    { <<".", "j", "p", "g">>, <<".", "j", "p", "e", "g">>, <<".", "p", "n", "g">>,
      <<".", "p", "d", "f">>, <<".", "d", "o", "c">>, <<".", "d", "o", "c", "x">> }

\* fileFilter: the lower-cased extension of the original name is allowed.
fileFilter(originalname) == toLowerCase(extname(originalname)) \in allowedTypes

\* ---------------------------------------------------------------- endpoints
Contact == "/submit-contact-form"
SubscribeEp == "/subscribe"
Quote == "/submit-quote-form"
Form == "/submit-form"
Multipart == "/submit-form/multipart"
Endpoints == {Contact, SubscribeEp, Quote, Form, Multipart}

\* Routes registered with a multer middleware, and its field and count.
MulterEndpoints == {Contact, Quote, Form}
TwoTier == {Contact, Quote, Form, Multipart}
UploadField(e) == IF e = Quote THEN "fileUpload" ELSE "file"
MaxCount(e) == IF e = Quote THEN ArrayMaxCount ELSE SingleMaxCount

\* ------------------------------------------------------------------ inputs
S_blank == <<" ">>
S_name == <<"A", "l">>
S_mail == <<"a", "@", "b", ".", "c">>
S_nodot == <<"a", "@", "b">>
S_abc == <<"a", "b", "c">>
S_phone == <<"5", "5", "5", "-", "1", "2", "3", "4">>
S_text == <<"h", "i", "\n", "x">>
F_pdf == <<"a", ".", "p", "d", "f">>
F_PDF == <<"a", ".", "P", "D", "F">>
F_exe == <<"p", ".", "e", "x", "e">>

Names == {Undefined, Str(<<>>), Str(S_blank), Str(S_name)}
Emails == {Undefined, Str(S_blank), Str(S_nodot), Str(S_mail), Obj}
Phones == {Undefined, Str(S_blank), Str(S_abc), Str(S_phone)}
\* Message / comments / additionalComments: absent, a text, or an array (the
\* field repeated in the multipart body, or a JSON array).
Comments == {Undefined, Str(S_text), Arr(<<S_text>>)}

\* One file part of a multipart body: its original name and its byte length.
FileParts ==
    { [originalname |-> F_pdf, size |-> 1024],
      [originalname |-> F_PDF, size |-> FileSizeLimit],
      [originalname |-> F_exe, size |-> 1024],
      [originalname |-> F_pdf, size |-> FileSizeLimit + 1] }
PartSeqs == UNION {[1..n -> FileParts] : n \in 0..MaxFiles}

\* fileData of the JSON endpoint: absent, a base64 string of `bytes` decoded
\* bytes, or a JSON value that is not a string.
NoData == [t |-> "undefined", bytes |-> 0]
FileDatas ==
    { NoData,
      [t |-> "string", bytes |-> 1024],
      [t |-> "string", bytes |-> FileSizeLimit + 1],
      [t |-> "number", bytes |-> 0] }
FileNames == {Undefined, Str(F_pdf), Str(F_PDF), Str(F_exe)}

\* ------------------------------------------------------------------- state
Reqs == {1}

VARIABLES
    req,            \* per request: its fields, its position and its history
    uploads,        \* the file names present in the uploads directory
    pending,        \* fs.unlink calls issued and not yet completed
    unlinkErrors,   \* number of 'Error removing file' / 'Cleanup failed' logs
    nodeEnv,        \* process.env.NODE_ENV
    calc            \* a call of one of the helpers: its argument and result

vars == <<req, uploads, pending, unlinkErrors, nodeEnv, calc>>

\* No helper is being called on its own.
NoCalc ==
    [ fn |-> "none", pc |-> "idle", arg |-> Undefined, field |-> "none",
      serviceType |-> "none", ok |-> FALSE, text |-> <<>> ]

IdleReq ==
    [ pc |-> "idle", endpoint |-> "none",
      name |-> Undefined, email |-> Undefined, phone |-> Undefined,
      comments |-> Undefined, fileData |-> NoData, fileName |-> Undefined,
      parts |-> <<>>, next |-> 1,
      files |-> <<>>,          \* req.file / req.files / filePath
      written |-> <<>>,        \* every path written on behalf of the request
      fileRejected |-> "none", \* the check that rejected a file, if one did
      emailSent |-> FALSE, emailError |-> "null",
      sends |-> <<>>,          \* the sendMail calls made, in order
      unlinkCalls |-> <<>>,    \* per entry of files: fs.unlink calls issued
      resp |-> <<>> ]          \* the responses sent

Init ==
    /\ req = [r \in Reqs |-> IdleReq]
    /\ uploads = {}
    /\ pending = <<>>
    /\ unlinkErrors = 0
    /\ nodeEnv \in {"production", "development"}
    /\ calc = NoCalc

\* --------------------------------------------------------------- responses
Json(status, message) == [status |-> status, type |-> "json", body |-> message]
Redirect(location) == [status |-> 302, type |-> "redirect", body |-> location]

StatusMessage(status) == "Internal Server Error"

\* No error-handling middleware is registered, so an error passed to next()
\* reaches Express's default handler: the error's status (500 when it has
\* none) and, outside production, the error's stack as the body.
ExpressError(status, errorText) ==
    [ status |-> status, type |-> "errorpage",
      body |-> IF nodeEnv = "production" THEN StatusMessage(status) ELSE errorText ]

E_invalidType == "Error: Invalid file type. Only JPG, PNG, PDF, and DOC files are allowed."
E_tooLarge == "MulterError: File too large"
E_unexpected == "MulterError: Unexpected field"
E_primary == "primaryError"
E_fallback == "fallbackError"
E_convert == "TypeError: Cannot convert object to primitive value"

M_required == "Name and email are required fields."
M_requiredQuote == "Name, email, and phone are required fields."
M_email == "Please provide a valid email address."
M_phone == "Please provide a valid phone number."
M_wrong == "Something went wrong. Please try again later."
M_server == "Server error. Please try again later."
M_fileType == "Invalid file type. Only JPG, PNG, PDF, and DOC files are allowed."
M_thanks == "Thank you for your request. We will get back to you shortly!"
M_issue == "We encountered an issue sending your request. Please try again or contact us directly."

Respond(q, response) == [q EXCEPT !.pc = "done", !.resp = Append(@, response)]

\* ---------------------------------------------------------------- requests
\* A request arrives. express.json / express.urlencoded have parsed the body
\* of the routes without multer (every body drawn here is within their 50mb
\* limit); the multer routes hand the multipart body to the upload
\* middleware.
Receive(r) ==
    /\ req[r].pc = "idle"
    /\ \E e \in Endpoints, em \in Emails :
       \E nm \in IF e = SubscribeEp THEN {Undefined} ELSE Names,
          ph \in IF e \in {SubscribeEp, Multipart} THEN {Undefined} ELSE Phones,
          cm \in IF e = SubscribeEp THEN {Undefined} ELSE Comments,
          ps \in IF e \in MulterEndpoints THEN PartSeqs ELSE {<<>>},
          fd \in IF e = Multipart THEN FileDatas ELSE {NoData},
          fn \in IF e = Multipart THEN FileNames ELSE {Undefined} :
          LET q == [IdleReq EXCEPT !.endpoint = e, !.name = nm, !.email = em,
                                   !.phone = ph, !.comments = cm, !.parts = ps,
                                   !.fileData = fd, !.fileName = fn]
          IN req' = [req EXCEPT ![r] =
                [q EXCEPT !.pc = IF e \in MulterEndpoints THEN "upload" ELSE "handler"]]
    /\ UNCHANGED <<uploads, pending, unlinkErrors, nodeEnv, calc>>

\* ------------------------------------------------------- upload middleware
\* storage.filename: fieldname + '-' + uniqueSuffix + extname(originalname)
StorageFilename(fieldname, suffix, originalname) ==
    [prefix |-> fieldname, suffix |-> suffix, ext |-> extname(originalname)]

Paths(files) == {files[i].path : i \in 1..Len(files)}

\* multer aborts: the files it stored for this request are removed and the
\* error goes to next(err).
MulterAbort(r, q, stored, check, errorText) ==
    /\ uploads' = uploads \ stored
    /\ req' = [req EXCEPT ![r] =
          Respond([q EXCEPT !.files = <<>>, !.unlinkCalls = <<>>,
                            !.fileRejected = check],
                  ExpressError(500, errorText))]

\* upload.single('file') / upload.array('fileUpload', 5) on the next file
\* part: the count limit, then fileFilter, then the disk storage writes the
\* stream to a new file; a stream longer than the fileSize limit is cut
\* there and raises the limit event.
MulterFile(r) ==
    LET q == req[r]
        p == q.parts[q.next]
    IN /\ q.pc = "upload"
       /\ q.next <= Len(q.parts)
       /\ IF Len(q.files) >= MaxCount(q.endpoint)
          THEN MulterAbort(r, q, Paths(q.files), "count", E_unexpected)
          ELSE IF ~fileFilter(p.originalname)
          THEN MulterAbort(r, q, Paths(q.files), "extension", E_invalidType)
          ELSE \E suffix \in 1..MaxSuffix :
               LET path == StorageFilename(UploadField(q.endpoint), suffix, p.originalname)
                   w == [q EXCEPT !.written = Append(@, path)]
               IN /\ uploads' = uploads \cup {path}
                  /\ req' = [req EXCEPT ![r] =
                        [w EXCEPT !.pc = IF p.size > FileSizeLimit THEN "limit" ELSE @,
                                  !.next = @ + 1,
                                  !.files = Append(@, [path |-> path,
                                                       originalname |-> p.originalname]),
                                  !.unlinkCalls = Append(@, 0)]]
       /\ UNCHANGED <<pending, unlinkErrors, nodeEnv, calc>>

\* The limit event of a cut stream: multer aborts with LIMIT_FILE_SIZE and
\* removes what it stored, the cut file included.
MulterLimit(r) ==
    /\ req[r].pc = "limit"
    /\ MulterAbort(r, req[r], Paths(req[r].files), "size", E_tooLarge)
    /\ UNCHANGED <<pending, unlinkErrors, nodeEnv, calc>>

\* Every part is stored: the middleware calls next() and the handler runs.
MulterDone(r) ==
    /\ req[r].pc = "upload"
    /\ req[r].next > Len(req[r].parts)
    /\ req' = [req EXCEPT ![r].pc = "handler"]
    /\ UNCHANGED <<uploads, pending, unlinkErrors, nodeEnv, calc>>

\* ----------------------------------------------------------------- handlers
\* transporter.sendMail(mailOptions) is called and awaited.
StartSend(q, transport) ==
    [q EXCEPT !.pc = transport,
              !.sends = Append(@, [transport |-> transport, outcome |-> "pending"])]

\* fs.unlink(path, callback) for every entry of req.file / req.files /
\* filePath: the call is issued, the handler does not wait for it.
IssueUnlinks(q) == [q EXCEPT !.unlinkCalls = [i \in 1..Len(q.files) |-> @[i] + 1]]
UnlinkPaths(q) == [i \in 1..Len(q.files) |-> q.files[i].path]

\* Message.replace(/\n/g, '<br>') throws a TypeError on a truthy value that
\* is not a string.
RenderThrows(q) == Truthy(q.comments) /\ q.comments.t # "string"

\* The required-field check of each handler: !name || !email, with
\* || !phone on /submit-quote-form, and !email on /subscribe.
RequiredMissing(q) ==
    IF q.endpoint = SubscribeEp THEN ~Truthy(q.email)
    ELSE IF q.endpoint = Quote
         THEN ~Truthy(q.name) \/ ~Truthy(q.email) \/ ~Truthy(q.phone)
         ELSE ~Truthy(q.name) \/ ~Truthy(q.email)

\* POST /submit-contact-form, up to the first await (Name, Email, Subject,
\* Message are the fields name, email, phone, comments).
SubmitContactForm(r) ==
    LET q == req[r]
    IN /\ q.pc = "handler"
       /\ q.endpoint = Contact
       /\ IF RequiredMissing(q)
          THEN /\ req' = [req EXCEPT ![r] = Respond(q, Json(400, M_required))]
               /\ UNCHANGED pending
          ELSE IF ConvertThrows(q.email)
          \* validateEmail throws inside the try: the outer catch
          THEN /\ req' = [req EXCEPT ![r] = Respond(IssueUnlinks(q), Json(500, M_wrong))]
               /\ pending' = pending \o UnlinkPaths(q)
          ELSE IF ~validateEmail(q.email)
          THEN /\ req' = [req EXCEPT ![r] = Respond(q, Json(400, M_email))]
               /\ UNCHANGED pending
          ELSE IF Truthy(q.phone) /\ ~validatePhone(q.phone)
          THEN /\ req' = [req EXCEPT ![r] = Respond(q, Json(400, M_phone))]
               /\ UNCHANGED pending
          ELSE IF RenderThrows(q)
          THEN /\ req' = [req EXCEPT ![r] = Respond(IssueUnlinks(q), Json(500, M_wrong))]
               /\ pending' = pending \o UnlinkPaths(q)
          ELSE /\ req' = [req EXCEPT ![r] = StartSend(q, "primary")]
               /\ UNCHANGED pending
       /\ UNCHANGED <<uploads, unlinkErrors, nodeEnv, calc>>

\* POST /submit-form, up to the first await.
SubmitForm(r) ==
    LET q == req[r]
    IN /\ q.pc = "handler"
       /\ q.endpoint = Form
       /\ IF RequiredMissing(q)
          THEN /\ req' = [req EXCEPT ![r] = Respond(q, Json(400, M_required))]
               /\ UNCHANGED pending
          ELSE IF ConvertThrows(q.email)
          \* validateEmail throws inside the try: the outer catch
          THEN /\ req' = [req EXCEPT ![r] = Respond(IssueUnlinks(q), Json(500, M_wrong))]
               /\ pending' = pending \o UnlinkPaths(q)
          ELSE IF ~validateEmail(q.email)
          THEN /\ req' = [req EXCEPT ![r] = Respond(q, Json(400, M_email))]
               /\ UNCHANGED pending
          ELSE IF Truthy(q.phone) /\ ~validatePhone(q.phone)
          THEN /\ req' = [req EXCEPT ![r] = Respond(q, Json(400, M_phone))]
               /\ UNCHANGED pending
          ELSE IF RenderThrows(q)
          THEN /\ req' = [req EXCEPT ![r] = Respond(IssueUnlinks(q), Json(500, M_wrong))]
               /\ pending' = pending \o UnlinkPaths(q)
          ELSE /\ req' = [req EXCEPT ![r] = StartSend(q, "primary")]
               /\ UNCHANGED pending
       /\ UNCHANGED <<uploads, unlinkErrors, nodeEnv, calc>>

\* POST /submit-quote-form, up to the first await: phone is required and
\* not checked by validatePhone; the outer catch does not unlink.
SubmitQuoteForm(r) ==
    LET q == req[r]
    IN /\ q.pc = "handler"
       /\ q.endpoint = Quote
       /\ req' = [req EXCEPT ![r] =
             IF RequiredMissing(q)
             THEN Respond(q, Json(400, M_requiredQuote))
             ELSE IF ConvertThrows(q.email)
             THEN Respond(q, Json(500, M_server))
             ELSE IF ~validateEmail(q.email)
             THEN Respond(q, Json(400, M_email))
             ELSE IF RenderThrows(q)
             THEN Respond(q, Json(500, M_server))
             ELSE StartSend(q, "primary")]
       /\ UNCHANGED <<uploads, pending, unlinkErrors, nodeEnv, calc>>

\* An async handler has thrown outside any try: the promise it returned is
\* rejected. Express 4 ignores the promise and the request is never
\* answered; Express 5 passes the error to next(), hence to the default
\* error handler. The source does not fix the version.
Unhandled(q, errorText) ==
    {[q EXCEPT !.pc = "unhandled"], Respond(q, ExpressError(500, errorText))}

\* POST /subscribe, up to the first await: the validation is outside the
\* try.
Subscribe(r) ==
    LET q == req[r]
    IN /\ q.pc = "handler"
       /\ q.endpoint = SubscribeEp
       /\ IF RequiredMissing(q)
          THEN req' = [req EXCEPT ![r] = Respond(q, Json(400, M_email))]
          ELSE IF ConvertThrows(q.email)
          THEN \E u \in Unhandled(q, E_convert) : req' = [req EXCEPT ![r] = u]
          ELSE IF ~validateEmail(q.email)
          THEN req' = [req EXCEPT ![r] = Respond(q, Json(400, M_email))]
          ELSE req' = [req EXCEPT ![r] = StartSend(q, "primary")]
       /\ UNCHANGED <<uploads, pending, unlinkErrors, nodeEnv, calc>>

\* fileData && fileName: a JSON number is truthy as well.
HasInlineFile(q) == q.fileData.t # "undefined" /\ Truthy(q.fileName)

\* POST /submit-form/multipart, up to the first await: validation, the
\* extension check, fs.writeFileSync of the decoded payload, the rendering.
SubmitFormMultipart(r) ==
    LET q == req[r]
        fileExt == toLowerCase(extname(ToStr(q.fileName)))
    IN /\ q.pc = "handler"
       /\ q.endpoint = Multipart
       /\ IF RequiredMissing(q)
          THEN /\ req' = [req EXCEPT ![r] = Respond(q, Json(400, M_required))]
               /\ UNCHANGED uploads
          ELSE IF ConvertThrows(q.email)
          THEN /\ req' = [req EXCEPT ![r] = Respond(q, Json(500, M_wrong))]
               /\ UNCHANGED uploads
          ELSE IF ~validateEmail(q.email)
          THEN /\ req' = [req EXCEPT ![r] = Respond(q, Json(400, M_email))]
               /\ UNCHANGED uploads
          ELSE IF ~HasInlineFile(q)
          THEN /\ req' = [req EXCEPT ![r] =
                     IF RenderThrows(q) THEN Respond(q, Json(500, M_wrong))
                     ELSE StartSend(q, "primary")]
               /\ UNCHANGED uploads
          ELSE IF fileExt \notin allowedTypes
          THEN /\ req' = [req EXCEPT ![r] =
                     Respond([q EXCEPT !.fileRejected = "extension"],
                             Json(400, M_fileType))]
               /\ UNCHANGED uploads
          ELSE IF q.fileData.t # "string"
          \* fileData.replace is not a function
          THEN /\ req' = [req EXCEPT ![r] = Respond(q, Json(500, M_wrong))]
               /\ UNCHANGED uploads
          ELSE \E suffix \in 1..MaxSuffix :
               LET path == [prefix |-> "file", suffix |-> suffix, ext |-> fileExt]
                   w == [q EXCEPT !.written = Append(@, path),
                                  !.files = <<[path |-> path,
                                               originalname |-> ToStr(q.fileName)]>>,
                                  !.unlinkCalls = <<0>>]
               IN /\ uploads' = uploads \cup {path}
                  /\ req' = [req EXCEPT ![r] =
                        IF RenderThrows(q) THEN Respond(w, Json(500, M_wrong))
                        ELSE StartSend(w, "primary")]
       /\ UNCHANGED <<pending, unlinkErrors, nodeEnv, calc>>

\* ------------------------------------------------- after the send settles
SuccessResponse(e) ==
    IF e \in {Contact, Quote, SubscribeEp} THEN Redirect("/thank-you.html")
    ELSE Json(200, M_thanks)

FailureResponse(e) ==
    IF e \in {Contact, Quote, SubscribeEp} THEN Redirect("/error.html")
    ELSE Json(500, M_issue)

Settle(q, outcome) == [q EXCEPT !.sends[Len(q.sends)].outcome = outcome]

\* The code after the try/catch around the sends: unlink the temporary
\* files, then answer from emailSent.
CleanupAndRespond(q) ==
    Respond(IssueUnlinks(q),
            IF q.emailSent THEN SuccessResponse(q.endpoint)
            ELSE FailureResponse(q.endpoint))

\* Variant: the fallback transporter is called after the primary try block
\* instead of inside its catch.
PrimaryResolve_ThenFallback(r) ==
    LET q == req[r]
    IN /\ q.pc = "primary"
       /\ req' = [req EXCEPT ![r] =
             IF q.endpoint = SubscribeEp
             THEN Respond(Settle(q, "ok"), Redirect("/thank-you.html"))
             ELSE StartSend([Settle(q, "ok") EXCEPT !.emailSent = TRUE], "fallback")]
       /\ UNCHANGED <<uploads, pending, unlinkErrors, nodeEnv, calc>>

\* The primary sendMail resolves.
PrimaryResolve(r) ==
    LET q == req[r]
    IN /\ q.pc = "primary"
       /\ IF q.endpoint = SubscribeEp
          THEN /\ req' = [req EXCEPT ![r] =
                     Respond(Settle(q, "ok"), Redirect("/thank-you.html"))]
               /\ UNCHANGED pending
          ELSE /\ req' = [req EXCEPT ![r] =
                     CleanupAndRespond([Settle(q, "ok") EXCEPT !.emailSent = TRUE])]
               /\ pending' = pending \o UnlinkPaths(q)
       /\ UNCHANGED <<uploads, unlinkErrors, nodeEnv, calc>>

\* Variant: the catch block of the primary send unlinks the temporary files
\* before it calls the fallback transporter.
PrimaryReject_UnlinksFirst(r) ==
    LET q == req[r]
    IN /\ q.pc = "primary"
       /\ IF q.endpoint = SubscribeEp
          THEN /\ req' = [req EXCEPT ![r] =
                     Respond(Settle(q, "fail"), Redirect("/error.html"))]
               /\ UNCHANGED pending
          ELSE /\ req' = [req EXCEPT ![r] =
                     StartSend(IssueUnlinks([Settle(q, "fail") EXCEPT
                                                !.emailError = E_primary]),
                               "fallback")]
               /\ pending' = pending \o UnlinkPaths(q)
       /\ UNCHANGED <<uploads, unlinkErrors, nodeEnv, calc>>

\* The primary sendMail rejects: the catch block records the error and
\* calls the fallback transporter; /subscribe answers at once.
PrimaryReject(r) ==
    LET q == req[r]
    IN /\ q.pc = "primary"
       /\ req' = [req EXCEPT ![r] =
             IF q.endpoint = SubscribeEp
             THEN Respond(Settle(q, "fail"), Redirect("/error.html"))
             ELSE StartSend([Settle(q, "fail") EXCEPT !.emailError = E_primary],
                            "fallback")]
       /\ UNCHANGED <<uploads, pending, unlinkErrors, nodeEnv, calc>>

\* The fallback sendMail resolves.
FallbackResolve(r) ==
    LET q == req[r]
    IN /\ q.pc = "fallback"
       /\ req' = [req EXCEPT ![r] =
             CleanupAndRespond([Settle(q, "ok") EXCEPT !.emailSent = TRUE])]
       /\ pending' = pending \o UnlinkPaths(q)
       /\ UNCHANGED <<uploads, unlinkErrors, nodeEnv, calc>>

\* Variant: the inner catch does not record the fallback's error.
FallbackReject_KeepsPrimaryError(r) ==
    LET q == req[r]
    IN /\ q.pc = "fallback"
       /\ req' = [req EXCEPT ![r] = CleanupAndRespond(Settle(q, "fail"))]
       /\ pending' = pending \o UnlinkPaths(q)
       /\ UNCHANGED <<uploads, unlinkErrors, nodeEnv, calc>>

\* The fallback sendMail rejects.
FallbackReject(r) ==
    LET q == req[r]
    IN /\ q.pc = "fallback"
       /\ req' = [req EXCEPT ![r] =
             CleanupAndRespond([Settle(q, "fail") EXCEPT !.emailError = E_fallback])]
       /\ pending' = pending \o UnlinkPaths(q)
       /\ UNCHANGED <<uploads, unlinkErrors, nodeEnv, calc>>

\* Variant: the callback calls fs.unlink again when the deletion failed.
UnlinkDone_Retries(k) ==
    /\ k \in 1..Len(pending)
    /\ unlinkErrors < MaxFiles
    /\ uploads' = uploads \ {pending[k]}
    /\ unlinkErrors' = IF pending[k] \in uploads THEN unlinkErrors ELSE unlinkErrors + 1
    /\ pending' = IF pending[k] \in uploads
                  THEN [i \in 1..(Len(pending) - 1) |->
                           IF i < k THEN pending[i] ELSE pending[i + 1]]
                  ELSE pending
    /\ UNCHANGED <<req, nodeEnv, calc>>

\* An issued fs.unlink completes: the file is removed, or the callback logs
\* the error when the path is already gone.
UnlinkDone(k) ==
    /\ k \in 1..Len(pending)
    /\ uploads' = uploads \ {pending[k]}
    /\ unlinkErrors' = IF pending[k] \in uploads THEN unlinkErrors ELSE unlinkErrors + 1
    /\ pending' = [i \in 1..(Len(pending) - 1) |->
                      IF i < k THEN pending[i] ELSE pending[i + 1]]
    /\ UNCHANGED <<req, nodeEnv, calc>>

Next ==
    \/ \E r \in Reqs : Receive(r)
    \/ \E r \in Reqs : MulterFile(r)
    \/ \E r \in Reqs : MulterLimit(r)
    \/ \E r \in Reqs : MulterDone(r)
    \/ \E r \in Reqs : SubmitContactForm(r)
    \/ \E r \in Reqs : SubmitForm(r)
    \/ \E r \in Reqs : SubmitQuoteForm(r)
    \/ \E r \in Reqs : Subscribe(r)
    \/ \E r \in Reqs : SubmitFormMultipart(r)
    \/ \E r \in Reqs : PrimaryResolve(r)
    \/ \E r \in Reqs : PrimaryReject(r)
    \/ \E r \in Reqs : FallbackResolve(r)
    \/ \E r \in Reqs : FallbackReject(r)
    \/ \E k \in 1..MaxFiles : UnlinkDone(k)

Spec == Init /\ [][Next]_vars

TypeOK ==
    /\ \A r \in Reqs : req[r].pc \in {"idle", "upload", "limit", "handler", "primary", "fallback", "done",
                                 "unhandled"}
    /\ unlinkErrors \in 0..MaxFiles

\* ------------------------------------------------------------------ claims
Active(q) == q.pc # "idle"
Done(q) == q.pc = "done"
LastResp(q) == q.resp[Len(q.resp)]
SendPending(q) == \E i \in 1..Len(q.sends) : q.sends[i].outcome = "pending"
SendOk(q) == \E i \in 1..Len(q.sends) : q.sends[i].outcome = "ok"
Is4xx(response) == response.status \in 400..499

\* name or email is missing (absent or empty) in the submission.
MissingNameOrEmail(q) ==
    \/ q.endpoint # SubscribeEp /\ ~Truthy(q.name)
    \/ ~Truthy(q.email)

\* C1: when a submission in which name or email is missing is rejected by
\* the validation, no send has been attempted and no file has been written
\* to the uploads directory on its behalf, the upload middleware's writes
\* included, so none of its files is there after the rejection.
C1_RejectionHasNoSideEffect ==
    \A r \in Reqs :
        LET q == req[r]
        IN Done(q) /\ MissingNameOrEmail(q) /\ LastResp(q).type = "json"
              /\ LastResp(q).status = 400
            => /\ q.sends = <<>>
               /\ q.written = <<>>
               /\ \A i \in 1..Len(q.written) : q.written[i] \notin uploads

\* C2: for a submission with temporary files that reaches the send stage,
\* no unlink is issued while a send is in flight or before the last send,
\* and once the handler has answered every send has settled and each
\* temporary file has had exactly one unlink issued.
C2_UnlinkOnceAfterSends ==
    \A r \in Reqs :
        LET q == req[r]
        IN q.sends # <<>> =>
            \A i \in 1..Len(q.files) :
                /\ q.pc \in {"primary", "fallback"} => q.unlinkCalls[i] = 0
                /\ SendPending(q) => q.unlinkCalls[i] = 0
                /\ Done(q) => q.unlinkCalls[i] = 1 /\ ~SendPending(q)

\* A submission with a temporary file was answered after the primary send
\* failed and the fallback send settled, with its unlink issued.
C2_Witness ==
    \E r \in Reqs :
        /\ Done(req[r])
        /\ Len(req[r].sends) = 2
        /\ req[r].files # <<>>
        /\ req[r].unlinkCalls[1] = 1

\* C3: on a two-tier endpoint the send attempts are [primary] or
\* [primary failed, fallback]: the fallback starts only after the primary
\* has failed, nothing is sent after a successful send, a failed primary is
\* followed by the fallback, and there are at most two attempts.
C3_PrimaryThenFallback ==
    \A r \in Reqs :
        LET q == req[r]
            n == Len(q.sends)
        IN q.endpoint \in TwoTier =>
            /\ n <= 2
            /\ n >= 1 => q.sends[1].transport = "primary"
            /\ n = 2 => q.sends[1].outcome = "fail" /\ q.sends[2].transport = "fallback"
            /\ n >= 1 /\ q.sends[1].outcome = "ok" => n = 1
            /\ n >= 1 /\ q.sends[1].outcome = "fail" => n = 2

\* A two-tier submission whose primary send failed and whose fallback send
\* succeeded.
C3_Witness ==
    \E r \in Reqs :
        /\ req[r].endpoint \in TwoTier
        /\ Len(req[r].sends) = 2
        /\ req[r].sends[2].outcome = "ok"

\* C4: on every relaying endpoint, /subscribe included, a failed primary send
\* is followed by a fallback send before the failure response.
C4_FallbackOnEveryEndpoint ==
    \A r \in Reqs :
        LET q == req[r]
        IN Done(q) /\ q.sends # <<>> /\ q.sends[1].outcome = "fail"
            => \E i \in 1..Len(q.sends) : q.sends[i].transport = "fallback"

IsSuccess(e, response) == response = SuccessResponse(e)

\* C5: the success response is produced exactly when the primary or the
\* fallback send succeeded; when both fail the answer is the endpoint's
\* delivery-failure response, not the catch block's, and the recorded error
\* is the fallback's.
C5_SuccessIffSent ==
    \A r \in Reqs :
        LET q == req[r]
        IN Done(q) =>
            /\ IsSuccess(q.endpoint, LastResp(q)) <=> SendOk(q)
            /\ q.emailSent <=> (SendOk(q) /\ q.endpoint # SubscribeEp)
            /\ (Len(q.sends) = 2 /\ ~SendOk(q)) =>
                  /\ LastResp(q) = FailureResponse(q.endpoint)
                  /\ q.emailError = E_fallback

\* A submission answered after both sends failed.
C5_Witness ==
    \E r \in Reqs :
        /\ Done(req[r])
        /\ Len(req[r].sends) = 2
        /\ req[r].sends[2].outcome = "fail"

\* The texts of the transport and upload errors.
ErrorTexts == {E_invalidType, E_tooLarge, E_unexpected, E_primary, E_fallback}

\* C6: no response carries the text of the underlying transport, upload or
\* runtime error; a failure response is a fixed generic message or a
\* redirect to the generic error page.
C6_NoErrorTextInResponse ==
    \A r \in Reqs :
        \A i \in 1..Len(req[r].resp) :
            /\ req[r].resp[i].body \notin ErrorTexts
            /\ req[r].resp[i].type = "redirect"
                  => req[r].resp[i].body \in {"/thank-you.html", "/error.html"}

\* The submission carries a file whose extension is outside the allow-list
\* or whose payload exceeds 10 MiB, as a multipart part or inline.
HasBadFile(q) ==
    \/ \E i \in 1..Len(q.parts) :
          \/ toLowerCase(extname(q.parts[i].originalname)) \notin allowedTypes
          \/ q.parts[i].size > FileSizeLimit
    \/ /\ q.fileData.t = "string"
       /\ Truthy(q.fileName)
       /\ \/ toLowerCase(extname(ToStr(q.fileName))) \notin allowedTypes
          \/ q.fileData.bytes > FileSizeLimit

\* C7: a file with a disallowed extension or of more than 10 MiB is
\* rejected (the submission is never sent and is answered with an error),
\* and when it is rejected no file of the request has been written.
C7_BadFileRejectedBeforeWrite ==
    \A r \in Reqs :
        LET q == req[r]
        IN /\ HasBadFile(q) => q.sends = <<>>
           /\ HasBadFile(q) /\ Done(q) => LastResp(q).status >= 400
           /\ q.fileRejected \in {"extension", "size"} => q.written = <<>>

\* C8: a file rejected for its extension or its size is answered with a 4xx
\* status.
C8_FileRejectionIs4xx ==
    \A r \in Reqs :
        LET q == req[r]
        IN Done(q) /\ q.fileRejected \in {"extension", "size"} => Is4xx(LastResp(q))

\* A required field is missing, or validateEmail / validatePhone returns
\* false for it.
BadRequiredField(q) ==
    \/ ~Truthy(q.email)
    \/ ~ConvertThrows(q.email) /\ ~validateEmail(q.email)
    \/ q.endpoint # SubscribeEp /\ ~Truthy(q.name)
    \/ q.endpoint = Quote /\ (~Truthy(q.phone) \/ ~validatePhone(q.phone))

\* C9: a submission with a missing or malformed required field is never
\* sent and is answered with a 4xx status.
C9_BadFieldIs4xxAndUnsent ==
    \A r \in Reqs :
        LET q == req[r]
        IN Active(q) /\ BadRequiredField(q) =>
              /\ q.sends = <<>>
              /\ Done(q) => Is4xx(LastResp(q))

\* Absent, empty, or empty after trimming.
Blank(v) ==
    \/ ~Truthy(v)
    \/ v.t = "string" /\ \A k \in 1..Len(v.s) : IsSpace(v.s[k])

BlankRequired(q) ==
    \/ Blank(q.email)
    \/ q.endpoint # SubscribeEp /\ Blank(q.name)
    \/ q.endpoint = Quote /\ Blank(q.phone)

\* The handler has run its checks: it is sending, or it has answered.
HandlerRan(q) == q.sends # <<>> \/ (Done(q) /\ LastResp(q).type = "json")

\* C10: a submission in which name or email (and phone on the quote
\* endpoint) is absent, empty or only whitespace does not pass the handler's
\* field checks: it is never sent and the handler answers 400.
C10_BlankFailsRequiredCheck ==
    \A r \in Reqs :
        LET q == req[r]
        IN HandlerRan(q) /\ BlankRequired(q)
            => /\ q.sends = <<>>
               /\ Done(q) => LastResp(q).status = 400

\* ------------------------------------------------- the helpers on their own
Fill(n, c) == [k \in 1..n |-> c]

\* Phone arguments: absent, or a prefix, a run of one phone character and a
\* suffix.
PhoneArgs ==
    {Undefined} \cup
    { Str(pre \o Fill(n, c) \o suf) :
         pre \in {<<>>, <<"+">>, <<"+", "+">>, <<"a">>},
         n \in 0..MaxPhoneLen,
         c \in {"5", " ", "-"},
         suf \in {<<>>, <<"7">>, <<"+">>, <<"x">>} }

\* Email arguments: every string over these characters up to MaxEmailLen.
EmailChars == {"a", "@", ".", " "}
EmailArgs == {Str(s) : s \in UNION {[1..n -> EmailChars] : n \in 0..MaxEmailLen}}

\* Values of a multi-select field: absent, one string, or an array of up to
\* MaxItems strings.
Items == {<<"A">>, <<"B">>}
FieldArgs ==
    {Undefined, Str(<<>>), Str(<<"A">>)}
        \cup {Arr(a) : a \in UNION {[1..n -> Items] : n \in 0..MaxItems}}

S_noneSelected == <<"N", "o", "n", "e", " ", "s", "e", "l", "e", "c", "t", "e", "d">>
L_window == <<"W", "i", "n", "d", "o", "w", " ", "T", "y", "p", "e", ":", " ">>
L_door == <<"D", "o", "o", "r", " ", "T", "y", "p", "e", ":", " ">>

\* Variant: the array is interpolated without Array.isArray / join(', ').
FormatMulti_Coerced(v) == IF Truthy(v) THEN ToStr(v) ELSE S_noneSelected

\* Array.isArray(v) ? v.join(', ') : v || 'None selected'
\* (windowType and glazing of /submit-form and /submit-form/multipart)
FormatMulti(v) ==
    IF v.t = "array" THEN Join(v.a, <<",", " ">>)
    ELSE IF Truthy(v) THEN v.s
    ELSE S_noneSelected

\* serviceDetails of /submit-quote-form: the selected service's type,
\* interpolated into a template literal, or nothing.
ServiceDetails(serviceType, windowsType, doorsType) ==
    IF serviceType = "Windows" /\ Truthy(windowsType)
    THEN L_window \o ToStr(windowsType)
    ELSE IF serviceType = "Doors" /\ Truthy(doorsType)
    THEN L_door \o ToStr(doorsType)
    ELSE <<>>

Call(fn, arg) == [NoCalc EXCEPT !.fn = fn, !.pc = "call", !.arg = arg]

FieldCalls ==
    { [Call(fn, a) EXCEPT !.field = f] :
         fn \in {"FormatMulti"}, f \in {"windowType", "glazing"}, a \in FieldArgs }
    \cup
    { [Call(fn, a) EXCEPT !.field = f, !.serviceType = st] :
         fn \in {"ServiceDetails"}, f \in {"windowsType", "doorsType"},
         st \in {"Windows", "Doors", "Other"}, a \in FieldArgs }


InitPure ==
    /\ req = [r \in Reqs |-> IdleReq]
    /\ uploads = {}
    /\ pending = <<>>
    /\ unlinkErrors = 0
    /\ nodeEnv = "production"
    /\ calc \in {Call("validatePhone", a) : a \in PhoneArgs}
                \cup {Call("validateEmail", a) : a \in EmailArgs}
                \cup FieldCalls

\* validatePhone(phone) is called and returns.
CallValidatePhone ==
    /\ calc.pc = "call"
    /\ calc.fn = "validatePhone"
    /\ calc' = [calc EXCEPT !.pc = "return", !.ok = validatePhone(calc.arg)]
    /\ UNCHANGED <<req, uploads, pending, unlinkErrors, nodeEnv>>

\* validateEmail(email) is called and returns.
CallValidateEmail ==
    /\ calc.pc = "call"
    /\ calc.fn = "validateEmail"
    /\ calc' = [calc EXCEPT !.pc = "return", !.ok = validateEmail(calc.arg)]
    /\ UNCHANGED <<req, uploads, pending, unlinkErrors, nodeEnv>>

\* windowTypes / glazingOptions is computed from the raw field.
CallFormatMulti ==
    /\ calc.pc = "call"
    /\ calc.fn = "FormatMulti"
    /\ calc' = [calc EXCEPT !.pc = "return", !.text = FormatMulti(calc.arg)]
    /\ UNCHANGED <<req, uploads, pending, unlinkErrors, nodeEnv>>

\* serviceDetails is computed from serviceType and the raw field.
CallServiceDetails ==
    /\ calc.pc = "call"
    /\ calc.fn = "ServiceDetails"
    /\ calc' = [calc EXCEPT !.pc = "return", !.text =
          IF calc.field = "windowsType"
          THEN ServiceDetails(calc.serviceType, calc.arg, Undefined)
          ELSE ServiceDetails(calc.serviceType, Undefined, calc.arg)]
    /\ UNCHANGED <<req, uploads, pending, unlinkErrors, nodeEnv>>

NextPure ==
    \/ CallValidatePhone
    \/ CallValidateEmail
    \/ CallFormatMulti
    \/ CallServiceDetails

SpecPure == InitPure /\ [][NextPure]_vars

Returned(fn) == calc.pc = "return" /\ calc.fn = fn

PhoneChar(c) == IsDigit(c) \/ IsSpace(c) \/ c = "-"

\* An optional leading '+' and phone characters only, n characters in all.
PhoneShape(s, n) ==
    /\ Len(s) = n
    /\ \A k \in 1..n : PhoneChar(s[k]) \/ (k = 1 /\ s[k] = "+")

\* C11 as stated: validatePhone accepts an absent or empty phone, and a
\* non-empty one exactly when it is made of digits, spaces and hyphens with
\* an optional leading '+' and its total length is 8 to 15.
C11_PhoneTotalLength ==
    Returned("validatePhone") =>
        IF ~Truthy(calc.arg) THEN calc.ok
        ELSE calc.ok <=> \E n \in 8..15 : PhoneShape(calc.arg.s, n)

\* C11 amended: validatePhone accepts an absent or empty phone, and a
\* non-empty one exactly when it is 8 to 15 digits, spaces and hyphens, or a
\* '+' followed by 8 to 15 of them: the '+' is not counted in the 8 to 15.
C11_PhoneBodyLength ==
    Returned("validatePhone") =>
        IF ~Truthy(calc.arg) THEN calc.ok
        ELSE calc.ok <=>
             \E n \in 8..15 :
                \/ PhoneShape(calc.arg.s, n) /\ calc.arg.s[1] # "+"
                \/ PhoneShape(calc.arg.s, n + 1) /\ calc.arg.s[1] = "+"

\* validatePhone has accepted a '+' followed by 15 phone characters, 16
\* characters in all.
C11_Witness ==
    /\ Returned("validatePhone")
    /\ calc.ok
    /\ Len(calc.arg.s) = 16
    /\ calc.arg.s[1] = "+"

\* The positions of character c in s.
Positions(s, c) == {k \in 1..Len(s) : s[k] = c}

\* One '@', no white space, something before the '@', and after it a '.'
\* with something on both of its sides.
EmailForm(s) ==
    /\ Cardinality(Positions(s, "@")) = 1
    /\ \A k \in 1..Len(s) : ~IsSpace(s[k])
    /\ LET at == CHOOSE k \in Positions(s, "@") : TRUE
       IN /\ at > 1
          /\ \E j \in Positions(s, ".") : j > at + 1 /\ j < Len(s)

\* No '@', or no '.' after the first '@'.
LacksAtOrDot(s) ==
    \/ Positions(s, "@") = {}
    \/ \A i \in Positions(s, "@") : \A j \in Positions(s, ".") :
          (\A m \in Positions(s, "@") : i <= m) => j < i

\* C12: validateEmail returns true for every string of the form
\* local@domain.tld, each part one or more characters that are neither white
\* space nor '@', and false for every string without an '@' or without a '.'
\* after its '@'.
C12_EmailShape ==
    Returned("validateEmail") =>
        /\ EmailForm(calc.arg.s) => calc.ok
        /\ LacksAtOrDot(calc.arg.s) => ~calc.ok

\* validateEmail has accepted a string with a dot inside its domain part.
C12_Witness ==
    /\ Returned("validateEmail")
    /\ calc.ok
    /\ EmailForm(calc.arg.s)
    /\ Len(calc.arg.s) = 5

\* The elements of a, in order, with sep between consecutive ones.
RECURSIVE JoinedBy(_, _)
JoinedBy(a, sep) ==
    IF Len(a) = 0 THEN <<>>
    ELSE IF Len(a) = 1 THEN a[1]
    ELSE JoinedBy(SubSeq(a, 1, Len(a) - 1), sep) \o sep \o a[Len(a)]

\* The service selected on the quote form is the one the field belongs to.
ServiceOf(field) == IF field = "windowsType" THEN "Windows" ELSE "Doors"
LabelOf(field) == IF field = "windowsType" THEN L_window ELSE L_door
Shown(text, label) ==
    IF Len(text) >= Len(label) /\ SubSeq(text, 1, Len(label)) = label
    THEN SubSeq(text, Len(label) + 1, Len(text))
    ELSE <<"(", "n", "o", "t", " ", "s", "h", "o", "w", "n", ")">>

ConcReqs == {1, 2}

\* The application file that registers the route.
App(e) == IF e \in {Contact, SubscribeEp, Quote} THEN "index.js" ELSE "part_000"

InitConc ==
    /\ req = [r \in ConcReqs |-> IdleReq]
    /\ uploads = {}
    /\ pending = <<>>
    /\ unlinkErrors = 0
    /\ nodeEnv = "production"
    /\ calc = NoCalc

\* A valid submission with one small .pdf attachment arrives, as a file
\* part on /submit-contact-form, /submit-quote-form and /submit-form and
\* inline on /submit-form/multipart.
ReceiveValid(r) ==
    /\ req[r].pc = "idle"
    /\ \E e \in TwoTier :
          /\ \A o \in ConcReqs : req[o].pc # "idle" => App(req[o].endpoint) = App(e)
          /\ req' = [req EXCEPT ![r] =
                [IdleReq EXCEPT
                    !.endpoint = e, !.name = Str(S_name), !.email = Str(S_mail),
                    !.phone = Str(S_phone),
                    !.parts = IF e \in MulterEndpoints
                              THEN <<[originalname |-> F_pdf, size |-> 1024]>>
                              ELSE <<>>,
                    !.fileData = IF e = Multipart
                                 THEN [t |-> "string", bytes |-> 1024] ELSE NoData,
                    !.fileName = IF e = Multipart THEN Str(F_pdf) ELSE Undefined,
                    !.pc = IF e \in MulterEndpoints THEN "upload" ELSE "handler"]]
    /\ UNCHANGED <<uploads, pending, unlinkErrors, nodeEnv, calc>>

NextConc ==
    \/ \E r \in ConcReqs : ReceiveValid(r)
    \/ \E r \in ConcReqs : MulterFile(r)
    \/ \E r \in ConcReqs : MulterDone(r)
    \/ \E r \in ConcReqs : SubmitContactForm(r)
    \/ \E r \in ConcReqs : SubmitQuoteForm(r)
    \/ \E r \in ConcReqs : SubmitForm(r)
    \/ \E r \in ConcReqs : SubmitFormMultipart(r)
    \/ \E r \in ConcReqs : PrimaryResolve(r)
    \/ \E r \in ConcReqs : PrimaryReject(r)
    \/ \E r \in ConcReqs : FallbackResolve(r)
    \/ \E r \in ConcReqs : FallbackReject(r)
    \/ \E k \in 1..Cardinality(ConcReqs) : UnlinkDone(k)

SpecConc == InitConc /\ [][NextConc]_vars

InFlight(q) == q.pc \notin {"idle", "done"}
Sending(q) == q.pc \in {"primary", "fallback"}

\* C14: no two in-flight submissions hold the same temporary file path, and
\* the files of a submission that is still sending are in the uploads
\* directory: no other submission's cleanup has deleted them.
C14_NoSharedPath ==
    \A r1 \in DOMAIN req : \A r2 \in DOMAIN req :
        /\ (r1 # r2 /\ InFlight(req[r1]) /\ InFlight(req[r2]))
              => Paths(req[r1].files) \cap Paths(req[r2].files) = {}
        /\ Sending(req[r1]) => Paths(req[r1].files) \subseteq uploads

\* The number of fs.unlink calls a request has issued.
RECURSIVE Sum(_)
Sum(s) == IF s = <<>> THEN 0 ELSE s[1] + Sum(Tail(s))

\* C15: a deletion that fails is only logged: the step that logs it takes
\* the call out of the pending ones without issuing another and leaves the
\* request and its response as they are; no file has more than one unlink
\* issued; and the step that issues the unlinks sends the response and
\* leaves them pending, with the files still there: it does not wait.
C15_UnlinkFailureOnlyLogged ==
    [][ /\ unlinkErrors' # unlinkErrors =>
              /\ unlinkErrors' = unlinkErrors + 1
              /\ req' = req
              /\ Len(pending') = Len(pending) - 1
        /\ \A r \in DOMAIN req :
              /\ \A i \in 1..Len(req'[r].unlinkCalls) : req'[r].unlinkCalls[i] <= 1
              /\ Sum(req'[r].unlinkCalls) > Sum(req[r].unlinkCalls) =>
                    /\ Len(req'[r].resp) = Len(req[r].resp) + 1
                    /\ Len(pending') =
                          Len(pending) + Sum(req'[r].unlinkCalls) - Sum(req[r].unlinkCalls)
                    /\ uploads' = uploads
      ]_vars

\* A deletion has failed after the response was sent, and no unlink is
\* pending any more.
C15_Witness ==
    /\ unlinkErrors > 0
    /\ pending = <<>>
    /\ \E r \in Reqs : Done(req[r]) /\ Len(req[r].resp) = 1

\* C16: once a request has been answered and no deletion is pending any
\* more, no file written to the upload directory on behalf of the request
\* is still there, whichever way the handler was left.
C16_NoFileLeftBehind ==
    \A r \in Reqs :
        LET q == req[r] IN
            (Done(q) /\ pending = <<>>) =>
                \A i \in 1..Len(q.written) : q.written[i] \notin uploads

\* ---------------------------------------------------------------- progress
\* The submissions followed to their response: one of each way through a
\* handler (a field missing, a malformed or unconvertible email, a message
\* that cannot be rendered, file parts that are stored, refused or too
\* large, an inline file).
LiveEmails == {Undefined, Str(S_nodot), Str(S_mail), Obj}
LiveFileParts ==
    { [originalname |-> F_pdf, size |-> 1024],
      [originalname |-> F_exe, size |-> 1024],
      [originalname |-> F_pdf, size |-> FileSizeLimit + 1] }
LivePartSeqs == UNION {[1..n -> LiveFileParts] : n \in 0..MaxFiles}

ReceiveLive(r) ==
    /\ req[r].pc = "idle"
    /\ \E e \in Endpoints, em \in LiveEmails :
       \E nm \in IF e = SubscribeEp THEN {Undefined} ELSE {Undefined, Str(S_name)},
          ph \in IF e \in {SubscribeEp, Multipart} THEN {Undefined} ELSE {Undefined, Str(S_phone)},
          cm \in IF e = SubscribeEp THEN {Undefined} ELSE {Undefined, Arr(<<S_text>>)},
          ps \in IF e \in MulterEndpoints THEN LivePartSeqs ELSE {<<>>},
          fd \in IF e = Multipart THEN {NoData, [t |-> "string", bytes |-> 1024]}
                                  ELSE {NoData},
          fn \in IF e = Multipart THEN {Str(F_pdf), Str(F_exe)} ELSE {Undefined} :
          req' = [req EXCEPT ![r] =
                [IdleReq EXCEPT !.endpoint = e, !.name = nm, !.email = em,
                                !.phone = ph, !.comments = cm, !.parts = ps,
                                !.fileData = fd, !.fileName = fn,
                                !.pc = IF e \in MulterEndpoints THEN "upload"
                                                                ELSE "handler"]]
    /\ UNCHANGED <<uploads, pending, unlinkErrors, nodeEnv, calc>>

NextLive ==
    \/ \E r \in Reqs : ReceiveLive(r)
    \/ \E r \in Reqs : MulterFile(r)
    \/ \E r \in Reqs : MulterLimit(r)
    \/ \E r \in Reqs : MulterDone(r)
    \/ \E r \in Reqs : SubmitContactForm(r)
    \/ \E r \in Reqs : SubmitForm(r)
    \/ \E r \in Reqs : SubmitQuoteForm(r)
    \/ \E r \in Reqs : Subscribe(r)
    \/ \E r \in Reqs : SubmitFormMultipart(r)
    \/ \E r \in Reqs : PrimaryResolve(r)
    \/ \E r \in Reqs : PrimaryReject(r)
    \/ \E r \in Reqs : FallbackResolve(r)
    \/ \E r \in Reqs : FallbackReject(r)
    \/ \E k \in 1..MaxFiles : UnlinkDone(k)

\* The steps of a request that is under way are taken: the event loop runs
\* the upload middleware and the handler, every send attempt settles (it
\* resolves or it rejects), every unlink completes. Whether a request
\* arrives at all is left open.
Fairness ==
    /\ \A r \in Reqs :
          /\ WF_vars(MulterFile(r) \/ MulterLimit(r) \/ MulterDone(r))
          /\ WF_vars(SubmitContactForm(r) \/ SubmitForm(r) \/ SubmitQuoteForm(r)
                        \/ Subscribe(r) \/ SubmitFormMultipart(r))
          /\ WF_vars(PrimaryResolve(r) \/ PrimaryReject(r))
          /\ WF_vars(FallbackResolve(r) \/ FallbackReject(r))
    /\ WF_vars(\E k \in 1..MaxFiles : UnlinkDone(k))

SpecLive == Init /\ [][NextLive]_vars /\ Fairness

\* C17: provided every send attempt settles, every request that has entered
\* the application is eventually answered, and with one response only.
C17_ExactlyOneResponse ==
    \A r \in Reqs :
        /\ [](Len(req[r].resp) <= 1)
        /\ Active(req[r]) ~> (Done(req[r]) /\ Len(req[r].resp) = 1)

====
